---- MODULE Spec2Model ----
(***************************************************************************)
(* Model of bot.py: a Flask webhook receiver that schedules send_alert     *)
(* tasks on the Discord bot's event loop, and the per-type formatters.     *)
(*                                                                         *)
(* Numbers are fixed-point hundredths (1250 stands for 12.50), the         *)
(* resolution of every ".2f" rendering in the source.  Text produced by    *)
(* an f-string is a sequence of one-character strings.                     *)
(***************************************************************************)
EXTENDS Integers, Sequences, FiniteSets, TLC

(***************************************************************************)
(* Bounds of the model                                                     *)
(***************************************************************************)
MaxReq == 2          \* webhook requests per behaviour
MaxPts == 1          \* numeric samples range over -MaxPts..MaxPts hundredths
BigPrice == 123456   \* a sample above 1,000.00 (exercises the "," grouping)

(***************************************************************************)
(* JSON values.  Every value has the same record shape.                    *)
(***************************************************************************)
Missing == [t |-> "missing", n |-> 0, s |-> ""]
Null == [t |-> "null", n |-> 0, s |-> ""]
Num(k) == [t |-> "num", n |-> k, s |-> ""]
Str(x) == [t |-> "str", n |-> 0, s |-> x]

Abs(x) == IF x < 0 THEN -x ELSE x

Keys ==
  {"type", "direction", "entry", "stop", "tp1", "tp2", "mode", "time", "day",
   "timeframe", "mo_bias", "price", "profit", "loss", "pnl"}

\* dict.get(key, default): the default only replaces an absent key
Get(data, key, default) ==
  IF data[key].t = "missing" THEN default ELSE data[key]

\* 'key' in data
Has(data, key) == data[key].t # "missing"

\* Strings that float() accepts, with the number they denote
NumericStrings == ("12.50" :> 1250) @@ ("-3" :> -300) @@ ("0" :> 0)

\* float(v): a number converts, a numeric string parses, anything else raises
\* (ValueError for a non-numeric string, TypeError for None)
Float(v) ==
  CASE v.t = "num" -> [ok |-> TRUE, v |-> v.n]
    [] v.t = "str" /\ v.s \in DOMAIN NumericStrings
         -> [ok |-> TRUE, v |-> NumericStrings[v.s]]
    [] OTHER -> [ok |-> FALSE, v |-> 0]

(***************************************************************************)
(* Format specifications ":,.2f", ":.2f" and ":+.2f"                       *)
(***************************************************************************)
DigitChar(d) == <<"0", "1", "2", "3", "4", "5", "6", "7", "8", "9">>[d + 1]

RECURSIVE Digits(_)
Digits(k) ==
  IF k < 10 THEN <<DigitChar(k)>>
  ELSE Digits(k \div 10) \o <<DigitChar(k % 10)>>

Pad3(k) ==
  <<DigitChar(k \div 100), DigitChar((k \div 10) % 10), DigitChar(k % 10)>>

RECURSIVE DigitsComma(_)
DigitsComma(k) ==
  IF k < 1000 THEN Digits(k)
  ELSE DigitsComma(k \div 1000) \o <<",">> \o Pad3(k % 1000)

Frac2(k) == <<".", DigitChar((k % 100) \div 10), DigitChar(k % 10)>>

SignChars(x, plus) ==
  IF x < 0 THEN <<"-">> ELSE IF plus THEN <<"+">> ELSE <<>>

\* f"{x:,.2f}"
FmtComma(x) ==
  SignChars(x, FALSE) \o DigitsComma(Abs(x) \div 100) \o Frac2(Abs(x))

\* f"{x:.2f}"
FmtPlain(x) ==
  SignChars(x, FALSE) \o Digits(Abs(x) \div 100) \o Frac2(Abs(x))

\* f"{x:+.2f}"
FmtSigned(x) ==
  SignChars(x, TRUE) \o Digits(Abs(x) \div 100) \o Frac2(Abs(x))

(***************************************************************************)
(* Messages handed to channel.send                                         *)
(***************************************************************************)
GREEN == 65280       \* 0x00FF00
RED == 16711680      \* 0xFF0000
NoColor == 0

Field(name, value, inline) ==
  [name |-> name, value |-> value, inline |-> inline]

Embed(fmt, title, description, color, fields, footer, now) ==
  [kind |-> "embed", formatter |-> fmt, title |-> title,
   description |-> description, color |-> color, fields |-> fields,
   footer |-> footer, timestamp |-> now, content |-> <<>>]

Text(content) ==
  [kind |-> "text", formatter |-> "generic", title |-> <<>>,
   description |-> <<>>, color |-> NoColor, fields |-> <<>>,
   footer |-> <<>>, timestamp |-> 0, content |-> content]

NoMessage ==
  [kind |-> "none", formatter |-> "none", title |-> <<>>,
   description |-> <<>>, color |-> NoColor, fields |-> <<>>,
   footer |-> <<>>, timestamp |-> 0, content |-> <<>>]

\* Result of running a coroutine up to its channel.send call
Sends(msg) == [outcome |-> "send", formatter |-> msg.formatter, msg |-> msg]
Raises(fmt) == [outcome |-> "raise", formatter |-> fmt, msg |-> NoMessage]
Drops == [outcome |-> "drop", formatter |-> "none", msg |-> NoMessage]

(***************************************************************************)
(* Formatters                                                              *)
(***************************************************************************)
\* Variant: the signed difference
DistanceSigned(a, b) == a - b

\* abs(entry - stop), abs(tp1 - entry), abs(tp2 - entry)
Distance(a, b) == Abs(a - b)

\* Variant: red for "SHORT" only
DirectionColorShortRed(direction) ==
  IF direction = Str("SHORT") THEN RED ELSE GREEN

\* 0x00FF00 if direction == 'LONG' else 0xFF0000
DirectionColor(direction) == IF direction = Str("LONG") THEN GREEN ELSE RED

\* emoji of the entry title, chosen like the colour
DirectionEmoji(direction) ==
  IF direction = Str("LONG") THEN "green-circle" ELSE "red-circle"

\* 0x00FF00 if pnl > 0 else 0xFF0000
EodColor(pnl) == IF pnl > 0 THEN GREEN ELSE RED

\* Variant: a zero pnl counted as a profit
EodResultZeroProfit(pnl) == IF pnl >= 0 THEN "PROFIT" ELSE "LOSS"

\* "PROFIT" if pnl > 0 else "LOSS" if pnl < 0 else "BREAKEVEN"
EodResult(pnl) ==
  IF pnl > 0 THEN "PROFIT" ELSE IF pnl < 0 THEN "LOSS" ELSE "BREAKEVEN"

send_entry_alert(data, now) ==
  LET direction == Get(data, "direction", Str("UNKNOWN"))
      entry == Float(Get(data, "entry", Num(0)))
      stop == Float(Get(data, "stop", Num(0)))
      tp1 == Float(Get(data, "tp1", Num(0)))
      tp2 == Float(Get(data, "tp2", Num(0)))
      mode == Get(data, "mode", Str(""))
      time_str == Get(data, "time", Str(""))
      day == Get(data, "day", Str(""))
      timeframe == Get(data, "timeframe", Str("Unknown"))
      risk == Distance(entry.v, stop.v)
      tp1_dist == Distance(tp1.v, entry.v)
      tp2_dist == Distance(tp2.v, entry.v)
      base ==
        << Field("Entry", <<FmtComma(entry.v)>>, TRUE),
           Field("Stop Loss", <<FmtComma(stop.v), FmtSigned(risk)>>, TRUE),
           Field("Risk", <<FmtPlain(risk)>>, TRUE),
           Field("TP1 (1.3R)", <<FmtComma(tp1.v), FmtSigned(tp1_dist)>>, TRUE),
           Field("TP2 (2.0R)", <<FmtComma(tp2.v), FmtSigned(tp2_dist)>>, TRUE),
           Field("Time", <<time_str, day>>, TRUE) >>
      fields ==
        IF Has(data, "mo_bias")
          THEN Append(base, Field("Midnight Open", <<data["mo_bias"]>>, FALSE))
          ELSE base
  IN IF ~(entry.ok /\ stop.ok /\ tp1.ok /\ tp2.ok) THEN Raises("entry")
     ELSE Sends(Embed("entry",
                      <<Str(DirectionEmoji(direction)), direction,
                        Str("ENTRY -"), mode, timeframe>>,
                      <<>>, DirectionColor(direction), fields,
                      <<Str("ICT Pro v10 Optimized |"), timeframe,
                        Str("Chart | Trade at your own risk")>>, now))

send_tp1_alert(data, now) ==
  LET direction == Get(data, "direction", Str("UNKNOWN"))
      price == Float(Get(data, "price", Num(0)))
      profit == Float(Get(data, "profit", Num(0)))
  IN IF ~(price.ok /\ profit.ok) THEN Raises("tp1")
     ELSE Sends(Embed("tp1", <<Str("TP1 HIT - 50% Closed")>>,
                      <<direction, Str("position moved to breakeven")>>,
                      DirectionColor(direction),
                      << Field("TP1 Price", <<FmtComma(price.v)>>, TRUE),
                         Field("Profit", <<<<"+">> \o FmtPlain(profit.v)>>, TRUE),
                         Field("Status", <<Str("Breakeven Active")>>, TRUE) >>,
                      <<Str("Remaining 50% running to TP2")>>, now))

send_tp2_alert(data, now) ==
  LET direction == Get(data, "direction", Str("UNKNOWN"))
      price == Float(Get(data, "price", Num(0)))
      profit == Float(Get(data, "profit", Num(0)))
  IN IF ~(price.ok /\ profit.ok) THEN Raises("tp2")
     ELSE Sends(Embed("tp2", <<Str("TP2 HIT - Trade Complete")>>,
                      <<direction, Str("position fully closed")>>,
                      GREEN,
                      << Field("TP2 Price", <<FmtComma(price.v)>>, TRUE),
                         Field("Total Profit",
                               <<<<"+">> \o FmtPlain(profit.v)>>, TRUE),
                         Field("Result", <<Str("WINNER")>>, TRUE) >>,
                      <<>>, now))

send_sl_alert(data, now) ==
  LET direction == Get(data, "direction", Str("UNKNOWN"))
      price == Float(Get(data, "price", Num(0)))
      loss == Float(Get(data, "loss", Num(0)))
  IN IF ~(price.ok /\ loss.ok) THEN Raises("sl")
     ELSE Sends(Embed("sl", <<Str("STOP LOSS HIT")>>,
                      <<direction, Str("position closed at stop")>>,
                      RED,
                      << Field("Exit Price", <<FmtComma(price.v)>>, TRUE),
                         Field("Loss", <<FmtPlain(loss.v)>>, TRUE),
                         Field("Result", <<Str("STOPPED OUT")>>, TRUE) >>,
                      <<>>, now))

send_eod_alert(data, now) ==
  LET direction == Get(data, "direction", Str("UNKNOWN"))
      price == Float(Get(data, "price", Num(0)))
      pnl == Float(Get(data, "pnl", Num(0)))
  IN IF ~(price.ok /\ pnl.ok) THEN Raises("eod")
     ELSE Sends(Embed("eod", <<Str("EOD CLOSE (3:00 PM)")>>,
                      <<direction, Str("position closed at end of day")>>,
                      EodColor(pnl.v),
                      << Field("Exit Price", <<FmtComma(price.v)>>, TRUE),
                         Field("P&L", <<FmtSigned(pnl.v)>>, TRUE),
                         Field("Result", <<Str(EodResult(pnl.v))>>, TRUE) >>,
                      <<>>, now))

\* channel.send(f"Alert: {json.dumps(data, indent=2)}"): every key of the
\* payload with its value
send_generic(data) ==
  Sends(Text([k \in {x \in Keys : Has(data, x)} |-> data[k]]))

(***************************************************************************)
(* Dispatcher.  body is what request.json returned: a dict                 *)
(* (kind "object") or another JSON value (kind "other"), on which          *)
(* data.get raises AttributeError.                                         *)
(***************************************************************************)
Route(alert_type, data, now) ==
  CASE alert_type = Str("entry") -> send_entry_alert(data, now)
    [] alert_type = Str("tp1") -> send_tp1_alert(data, now)
    [] alert_type = Str("tp2") -> send_tp2_alert(data, now)
    [] alert_type = Str("sl") -> send_sl_alert(data, now)
    [] alert_type = Str("eod") -> send_eod_alert(data, now)
    [] OTHER -> send_generic(data)

\* Variant: no channel check
send_alertUnchecked(channel, body, now) ==
  IF body.kind # "object" THEN Raises("none")
  ELSE Route(Get(body.data, "type", Str("unknown")), body.data, now)

send_alert(channel, body, now) ==
  IF ~channel THEN Drops
  ELSE IF body.kind # "object" THEN Raises("none")
  ELSE Route(Get(body.data, "type", Str("unknown")), body.data, now)

(***************************************************************************)
(* Webhook receiver                                                        *)
(***************************************************************************)
WEBHOOK_SECRET == "your-secret-key"
NoHeader == "<absent>"      \* request.headers.get returned None

Headers == {NoHeader, "wrong-key", WEBHOOK_SECRET}

\* secret != WEBHOOK_SECRET
SecretOk(secret) == secret = WEBHOOK_SECRET

NoResponse == [status |-> 0, body |-> ""]
Unauthorized == [status |-> 401, body |-> "error: Unauthorized"]
ServerError == [status |-> 500, body |-> "error: <str(e)>"]
Success == [status |-> 200, body |-> "status: success"]

\* Variant: the body is parsed before the secret is compared
webhookParseFirst(secret, body) ==
  IF body.kind = "malformed" THEN [response |-> ServerError, task |-> FALSE]
  ELSE IF ~SecretOk(secret) THEN [response |-> Unauthorized, task |-> FALSE]
  ELSE [response |-> Success, task |-> TRUE]

\* Variant: a parse failure is ignored
webhookLenient(secret, body) ==
  IF ~SecretOk(secret) THEN [response |-> Unauthorized, task |-> FALSE]
  ELSE [response |-> Success, task |-> TRUE]

\* Variant: the handler answers only once the payload is known to be a dict
webhookStrict(secret, body) ==
  IF ~SecretOk(secret) THEN [response |-> Unauthorized, task |-> FALSE]
  ELSE IF body.kind # "object" THEN [response |-> ServerError, task |-> FALSE]
  ELSE [response |-> Success, task |-> TRUE]

\* The handler up to its return statement: the response it gives and
\* whether bot.loop.create_task(send_alert(data)) was called on the way.
\* request.json raises on a body that is not JSON, inside the try block.
webhook(secret, body) ==
  IF ~SecretOk(secret) THEN [response |-> Unauthorized, task |-> FALSE]
  ELSE IF body.kind = "malformed" THEN [response |-> ServerError, task |-> FALSE]
  ELSE [response |-> Success, task |-> TRUE]

\* Variant: the new task runs before the tasks already scheduled
create_taskFront(queue, r) == <<r>> \o queue

\* bot.loop.create_task: the loop's ready queue is first in, first out
create_task(queue, r) == Append(queue, r)

(***************************************************************************)
(* Request bodies of the system model                                      *)
(***************************************************************************)
EmptyObject == [k \in Keys |-> Missing]

Object(data) == [kind |-> "object", data |-> data]
MalformedBody == [kind |-> "malformed", data |-> EmptyObject]
NonObjectBody == [kind |-> "other", data |-> EmptyObject]

EntryBody ==
  Object([EmptyObject EXCEPT !["type"] = Str("entry"),
                             !["direction"] = Str("LONG"),
                             !["entry"] = Num(BigPrice),
                             !["stop"] = Num(BigPrice - MaxPts)])

BadEntryBody ==
  Object([EmptyObject EXCEPT !["type"] = Str("entry"),
                             !["entry"] = Str("abc")])

Bodies ==
  {MalformedBody, NonObjectBody, Object(EmptyObject), EntryBody, BadEntryBody}

\* Header and body of a request: every body with the right secret, a
\* malformed and a well-formed body with an absent or wrong secret
Inputs ==
  ({WEBHOOK_SECRET} \X Bodies)
    \cup ((Headers \ {WEBHOOK_SECRET}) \X {MalformedBody, EntryBody})

(***************************************************************************)
(* State                                                                   *)
(***************************************************************************)
VARIABLES
  pc,        \* request -> "idle", "handling", "respond", "done"
  hdr,       \* request -> value of the X-Webhook-Secret header
  body,      \* request -> request body
  resp,      \* request -> HTTP response given, NoResponse before
  before,    \* request -> requests already answered when it arrived
  ready,     \* the bot loop's queue of scheduled send_alert tasks
  task,      \* request -> state of its send_alert task
  sendLog,   \* channel.send calls in the order they were issued
  channel,   \* whether bot.get_channel(DISCORD_CHANNEL_ID) resolves
  fin,       \* formatter model: the payload
  fout       \* formatter model: result of send_alert on fin

vars == <<pc, hdr, body, resp, before, ready, task, sendLog, channel, fin, fout>>

Requests == 1..MaxReq
MaxNow == 0
Times == 0..MaxNow          \* values datetime.utcnow() may return

NoTask == [st |-> "none", formatter |-> "none"]
NotRun == [outcome |-> "none", formatter |-> "none", msg |-> NoMessage]

SysInit ==
  /\ pc = [r \in Requests |-> "idle"]
  /\ hdr = [r \in Requests |-> NoHeader]
  /\ body = [r \in Requests |-> MalformedBody]
  /\ resp = [r \in Requests |-> NoResponse]
  /\ before = [r \in Requests |-> {}]
  /\ ready = <<>>
  /\ task = [r \in Requests |-> NoTask]
  /\ sendLog = <<>>
  /\ channel = FALSE

Init ==
  /\ SysInit
  /\ fin = Object(EmptyObject)
  /\ fout = NotRun

fvars == <<fin, fout>>

\* A POST /webhook arrives (requests are numbered in arrival order)
Receive(r, h, b) ==
  /\ pc[r] = "idle"
  /\ \A q \in Requests : q < r => pc[q] # "idle"
  /\ pc' = [pc EXCEPT ![r] = "handling"]
  /\ hdr' = [hdr EXCEPT ![r] = h]
  /\ body' = [body EXCEPT ![r] = b]
  /\ before' = [before EXCEPT ![r] = {q \in Requests : pc[q] = "done"}]
  /\ UNCHANGED <<resp, ready, task, sendLog, channel, fvars>>

\* The handler runs in its Flask thread up to create_task or to an error
\* response
Webhook(r) ==
  /\ pc[r] = "handling"
  /\ LET w == webhook(hdr[r], body[r])
     IN IF w.task
          THEN /\ ready' = create_task(ready, r)
               /\ task' = [task EXCEPT ![r] = [st |-> "queued", formatter |-> "none"]]
               /\ pc' = [pc EXCEPT ![r] = "respond"]
               /\ resp' = resp
          ELSE /\ resp' = [resp EXCEPT ![r] = w.response]
               /\ pc' = [pc EXCEPT ![r] = "done"]
               /\ UNCHANGED <<ready, task>>
  /\ UNCHANGED <<hdr, body, before, sendLog, channel, fvars>>

\* return jsonify({'status': 'success'}), 200
Respond(r) ==
  /\ pc[r] = "respond"
  /\ resp' = [resp EXCEPT ![r] = webhook(hdr[r], body[r]).response]
  /\ pc' = [pc EXCEPT ![r] = "done"]
  /\ UNCHANGED <<hdr, body, before, ready, task, sendLog, channel, fvars>>

\* The bot loop runs the oldest scheduled task up to its first suspension,
\* the channel.send call, or to its end
RunTask(now) ==
  /\ ready # <<>>
  /\ LET r == Head(ready)
         res == send_alert(channel, body[r], now)
     IN /\ ready' = Tail(ready)
        /\ task' = [task EXCEPT ![r] =
              [st |-> CASE res.outcome = "send" -> "sending"
                        [] res.outcome = "raise" -> "raised"
                        [] OTHER -> "dropped",
               formatter |-> res.formatter]]
        /\ sendLog' = IF res.outcome = "send"
                        THEN Append(sendLog, [req |-> r, msg |-> res.msg])
                        ELSE sendLog
  /\ UNCHANGED <<pc, hdr, body, resp, before, channel, fvars>>

\* channel.send returns: the coroutine ends
SendDone(r) ==
  /\ task[r].st = "sending"
  /\ task' = [task EXCEPT ![r].st = "sent"]
  /\ UNCHANGED <<pc, hdr, body, resp, before, ready, sendLog, channel, fvars>>

\* channel.send raises (network error, HTTP error): the exception ends the
\* task, nothing catches it
SendFail(r) ==
  /\ task[r].st = "sending"
  /\ task' = [task EXCEPT ![r].st = "failed"]
  /\ UNCHANGED <<pc, hdr, body, resp, before, ready, sendLog, channel, fvars>>

\* The bot's channel cache gains or loses the configured channel
ChannelFound ==
  /\ ~channel
  /\ channel' = TRUE
  /\ UNCHANGED <<pc, hdr, body, resp, before, ready, task, sendLog, fvars>>

ChannelLost ==
  /\ channel
  /\ channel' = FALSE
  /\ UNCHANGED <<pc, hdr, body, resp, before, ready, task, sendLog, fvars>>

Next ==
  \/ \E r \in Requests, i \in Inputs : Receive(r, i[1], i[2])
  \/ \E r \in Requests : Webhook(r)
  \/ \E r \in Requests : Respond(r)
  \/ \E now \in Times : RunTask(now)
  \/ \E r \in Requests : SendDone(r)
  \/ \E r \in Requests : SendFail(r)
  \/ ChannelFound
  \/ ChannelLost

Spec == Init /\ [][Next]_vars

(***************************************************************************)
(* Formatter model: send_alert applied to one payload drawn from a         *)
(* bounded set, with the channel resolved.                                 *)
(***************************************************************************)
Samples == (-MaxPts..MaxPts) \cup {BigPrice, -BigPrice}

NumVals ==
  {Missing, Null, Str("abc"), Str("12.50")} \cup {Num(k) : k \in Samples}

Types ==
  {Missing, Null, Num(1), Str("entry"), Str("tp1"), Str("tp2"), Str("sl"),
   Str("eod"), Str("unknown"), Str("ENTRY")}

Directions == {Missing, Str("LONG"), Str("SHORT"), Str("long")}

EntryPayloads ==
  { [EmptyObject EXCEPT !["type"] = Str("entry"), !["direction"] = dir,
                        !["entry"] = a, !["stop"] = b, !["tp1"] = c,
                        !["tp2"] = d, !["mo_bias"] = mo,
                        !["mode"] = x, !["time"] = x, !["day"] = x,
                        !["timeframe"] = x] :
      dir \in Directions, a \in NumVals, b \in NumVals, c \in NumVals,
      d \in NumVals, mo \in {Missing, Str("Bullish")},
      x \in {Missing, Str("x")} }

ExitPayloads ==
  { [EmptyObject EXCEPT !["type"] = ty, !["direction"] = dir,
                        !["price"] = a, !["profit"] = b, !["loss"] = b,
                        !["pnl"] = b] :
      ty \in Types \ {Str("entry")}, dir \in Directions,
      a \in NumVals, b \in NumVals }

FmtBodies ==
  {NonObjectBody} \cup {Object(d) : d \in EntryPayloads \cup ExitPayloads}

FmtInit ==
  /\ SysInit
  /\ fin \in FmtBodies
  /\ fout = NotRun

Format(now) ==
  /\ fout = NotRun
  /\ fout' = send_alert(TRUE, fin, now)
  /\ UNCHANGED <<pc, hdr, body, resp, before, ready, task, sendLog, channel, fin>>

FmtNext == \E now \in Times : Format(now)

FmtSpec == FmtInit /\ [][FmtNext]_vars

(***************************************************************************)
(* Properties                                                              *)
(***************************************************************************)
SendsOf(r) == {i \in DOMAIN sendLog : sendLog[i].req = r}
Queued(r) == \E i \in DOMAIN ready : ready[i] = r
Arrived(r) == pc[r] # "idle"

\* The number a payload field stands for once coerced, 0 when absent
Coerced(data, key) == IF data[key].t = "missing" THEN 0 ELSE Float(data[key]).v

\* Reads a rendered number back: sign, digits, "," and "." skipped
DigitVal(c) == CHOOSE d \in 0..9 : DigitChar(d) = c

RECURSIVE ParseDigits(_, _)
ParseDigits(chars, acc) ==
  IF chars = <<>> THEN acc
  ELSE IF Head(chars) \in {",", "."} THEN ParseDigits(Tail(chars), acc)
  ELSE ParseDigits(Tail(chars), 10 * acc + DigitVal(Head(chars)))

ParseFixed(chars) ==
  IF Head(chars) = "-" THEN -ParseDigits(Tail(chars), 0)
  ELSE IF Head(chars) = "+" THEN ParseDigits(Tail(chars), 0)
  ELSE ParseDigits(chars, 0)

TwoDecimals(chars) == Len(chars) >= 4 /\ chars[Len(chars) - 2] = "."

\* C1: a request whose X-Webhook-Secret header is absent or differs from the
\* configured secret is answered 401 Unauthorized, whatever its body, and
\* never has a send_alert task scheduled, queued or sending anything.
C1_BadSecretRejected ==
  \A r \in Requests :
    (Arrived(r) /\ hdr[r] # WEBHOOK_SECRET) =>
      /\ task[r] = NoTask
      /\ ~Queued(r)
      /\ SendsOf(r) = {}
      /\ pc[r] # "respond"
      /\ pc[r] = "done" => resp[r] = Unauthorized

C1_Witness ==
  \E r \in Requests :
    /\ pc[r] = "done" /\ hdr[r] = NoHeader /\ body[r].kind = "malformed"
    /\ resp[r].status = 401
    /\ \E q \in Requests :
         pc[q] = "done" /\ hdr[q] = "wrong-key" /\ body[q].kind = "object"
         /\ resp[q].status = 401

\* C2: a request with the valid secret whose body is not parsable JSON is
\* answered 500 with an error body, and no send_alert task is ever
\* scheduled for it and no chat send is made for it.
C2_MalformedRejected ==
  \A r \in Requests :
    (Arrived(r) /\ hdr[r] = WEBHOOK_SECRET /\ body[r].kind = "malformed") =>
      /\ task[r] = NoTask
      /\ ~Queued(r)
      /\ SendsOf(r) = {}
      /\ pc[r] # "respond"
      /\ pc[r] = "done" => resp[r] = ServerError

C2_Witness ==
  \E r \in Requests :
    /\ pc[r] = "done" /\ hdr[r] = WEBHOOK_SECRET
    /\ body[r].kind = "malformed" /\ resp[r].status = 500

\* C3: a request with the valid secret and a parsable body gets its task
\* scheduled and is answered 200 success whatever state its task is in, and
\* a response once given is never changed by anything that happens to the
\* task afterwards.
C3_Step ==
  \A r \in Requests :
    /\ resp[r] # NoResponse => resp'[r] = resp[r]
    /\ (hdr'[r] = WEBHOOK_SECRET /\ body'[r].kind # "malformed"
          /\ pc'[r] \in {"respond", "done"}) => task'[r] # NoTask
    /\ (hdr'[r] = WEBHOOK_SECRET /\ body'[r].kind # "malformed"
          /\ pc'[r] = "done") => resp'[r] = Success

ExpectedFormatter(data) ==
  LET ty == data["type"]
  IN IF ty \in {Str("entry"), Str("tp1"), Str("tp2"), Str("sl"), Str("eod")}
       THEN ty.s ELSE "generic"

C4_OneFormatterOneSend ==
  \A r \in Requests :
    (body[r].kind = "object"
       /\ task[r].st \in {"sending", "sent", "failed", "raised"}) =>
      /\ task[r].formatter = ExpectedFormatter(body[r].data)
      /\ Cardinality(SendsOf(r)) = 1

\* C5: a task that runs while the channel does not resolve ends dropped
\* without a formatter and without a send, whatever the payload; a dropped
\* task is never re-queued or retried, also after the channel resolves, and
\* its request's response is 200.
C5_Step ==
  \A r \in Requests :
    /\ (task[r].st = "queued" /\ task'[r] # task[r] /\ ~channel) =>
         /\ task'[r] = [st |-> "dropped", formatter |-> "none"]
         /\ sendLog' = sendLog
    /\ task[r].st = "dropped" =>
         /\ task'[r] = task[r]
         /\ \A i \in DOMAIN sendLog' : sendLog'[i].req # r
         /\ \A i \in DOMAIN ready' : ready'[i] # r
         /\ pc'[r] = "done" => resp'[r] = Success

C5_DroppedForGood == [][C5_Step]_vars

C5_Witness ==
  \E r, q \in Requests :
    /\ task[r].st = "dropped" /\ body[r].kind = "object"
    /\ body[r].data["type"] = Str("entry")
    /\ task[q].st = "dropped" /\ body[q].data["type"] = Missing
    /\ channel /\ ready = <<>> /\ sendLog = <<>>
    /\ resp[r] = Success /\ resp[q] = Success

\* C6: no dispatch of an accepted object payload ends in an exception:
\* each ends in its send or in a drop.
C6_DispatcherNeverRaises ==
  \A r \in Requests : body[r].kind = "object" => task[r].st # "raised"

\* C7: the colour of the message sent is green for entry and tp1 exactly
\* when direction is "LONG", always green for tp2, always red for sl, and
\* for eod green exactly when pnl > 0.
C7_Colors ==
  (fin.kind = "object" /\ fout.outcome = "send") =>
    LET d == fin.data
        ty == d["type"]
        color == fout.msg.color
    IN /\ ty \in {Str("entry"), Str("tp1")} =>
            /\ color \in {GREEN, RED}
            /\ color = GREEN <=> d["direction"] = Str("LONG")
       /\ ty = Str("tp2") => color = GREEN
       /\ ty = Str("sl") => color = RED
       /\ ty = Str("eod") =>
            /\ color \in {GREEN, RED}
            /\ color = GREEN <=> Coerced(d, "pnl") > 0

C7_Witness ==
  /\ fin.kind = "object" /\ fout.outcome = "send"
  /\ fin.data["type"] = Str("tp1") /\ fin.data["direction"] = Missing
  /\ fout.msg.color = RED

\* C8: the Result field of an eod message is PROFIT exactly when pnl > 0,
\* LOSS exactly when pnl < 0 and BREAKEVEN exactly when pnl = 0 (also when
\* pnl is absent), and the message is green only when the result is PROFIT.
C8_EodResult ==
  (fin.kind = "object" /\ fin.data["type"] = Str("eod")
     /\ fout.outcome = "send") =>
    LET pnl == Coerced(fin.data, "pnl")
        result == fout.msg.fields[3].value[1].s
    IN /\ fout.msg.fields[3].name = "Result"
       /\ result \in {"PROFIT", "LOSS", "BREAKEVEN"}
       /\ result = "PROFIT" <=> pnl > 0
       /\ result = "LOSS" <=> pnl < 0
       /\ result = "BREAKEVEN" <=> pnl = 0
       /\ fout.msg.color = GREEN => result = "PROFIT"
       /\ result = "BREAKEVEN" => fout.msg.color = RED

C8_Witness ==
  /\ fin.kind = "object" /\ fin.data["type"] = Str("eod")
  /\ fin.data["pnl"] = Missing /\ fout.outcome = "send"
  /\ fout.msg.fields[3].value[1].s = "BREAKEVEN" /\ fout.msg.color = RED

\* C9: in an entry message the Stop Loss delta and the Risk field read
\* |entry - stop|, the TP1 delta reads |tp1 - entry| and the TP2 delta reads
\* |tp2 - entry|, absent fields counting as 0, and the signed deltas start
\* with "+", never with "-".
C9_EntryDistances ==
  (fin.kind = "object" /\ fin.data["type"] = Str("entry")
     /\ fout.outcome = "send") =>
    LET d == fin.data
        entry == Coerced(d, "entry")
        f == fout.msg.fields
        slDelta == f[2].value[2]
        risk == f[3].value[1]
        tp1Delta == f[4].value[2]
        tp2Delta == f[5].value[2]
    IN /\ \A t \in {slDelta, risk, tp1Delta, tp2Delta} : TwoDecimals(t)
       /\ ParseFixed(slDelta) = Abs(entry - Coerced(d, "stop"))
       /\ ParseFixed(risk) = Abs(entry - Coerced(d, "stop"))
       /\ ParseFixed(tp1Delta) = Abs(Coerced(d, "tp1") - entry)
       /\ ParseFixed(tp2Delta) = Abs(Coerced(d, "tp2") - entry)
       /\ \A t \in {slDelta, tp1Delta, tp2Delta} : Head(t) = "+"
       /\ Head(risk) \notin {"+", "-"}

C9_Witness ==
  /\ fin.kind = "object" /\ fin.data["type"] = Str("entry")
  /\ fin.data["direction"] = Str("SHORT")
  /\ fin.data["entry"] = Num(-1) /\ fin.data["stop"] = Num(BigPrice)
  /\ fin.data["tp1"] = Num(-BigPrice) /\ fin.data["tp2"] = Missing
  /\ fout.outcome = "send"
  /\ ParseFixed(fout.msg.fields[2].value[2]) = BigPrice + 1

\* C10: when a call is made only after an earlier call was answered, the
\* chat send of the earlier call is issued before the chat send of the
\* later one.
PosOf(r) == CHOOSE i \in DOMAIN sendLog : sendLog[i].req = r

====
